---------------------------- MODULE Spec2Model ----------------------------
(***************************************************************************)
(* State-machine model of the Viewer class (src/src/viewer/viewer.ts) and  *)
(* of the call the hierarchy widget makes into it                          *)
(* (src/unnamed/part_000).                                                 *)
(*                                                                         *)
(* One state is the viewer after its constructor has returned, or after    *)
(* any later task of the single UI thread has run to completion: a window  *)
(* resize event, a canvas click event, an animation-frame callback, a      *)
(* settlement of the fetch or of the parse, a widget click, dispose().     *)
(***************************************************************************)
EXTENDS Integers, Sequences, FiniteSets

VARIABLES
    status,          \* viewer.status (current value of the BehaviorSubject)
    model,           \* viewer.model: 0 is undefined, else the root's index
    loadPc,          \* where the promise chain of loadModel() stands
    objects,         \* every THREE.Object3D the viewer created, by index
    sceneChildren,   \* viewer.scene.children
    selectedObject,  \* viewer._selectedObject: 0 is null, else an index
    renderNeeded,    \* viewer._renderNeeded
    pendingFrames,   \* animation-frame callbacks of the viewer not yet run
    cameraAspect,    \* viewer.camera.aspect, a ratio in lowest terms
    rendererSize,    \* the size last given to viewer._renderer.setSize
    innerSize,       \* <<window.innerWidth, window.innerHeight>>
    resizeListener,  \* window has this.resize registered for "resize"
    clickListener,   \* the canvas has this.onMouseClick registered for "click"
    disposed,        \* history: dispose() has been called
    drew,            \* history: the last step issued _renderer.render
    materialAtLoad   \* history: each object's material when it was parsed

vars == << status, model, loadPc, objects, sceneChildren, selectedObject,
           renderNeeded, pendingFrames, cameraAspect, rendererSize, innerSize,
           resizeListener, clickListener, disposed, drew, materialAtLoad >>

-----------------------------------------------------------------------------
(* Bounds of the model.                                                    *)

\* Largest number of nodes of a parsed scene-graph payload.
MaxNodes == 3

\* Largest number of animation-frame callbacks pending at once.
MaxPending == 2

\* The window sizes the browser reports: a landscape and a portrait one.
WindowSizes == { <<4, 2>>, <<2, 4>> }

\* The ids THREE's global counter may have reached when the parse starts
\* (the two lights of the constructor took 1 and 2).
FirstIds == { 3, 4 }

-----------------------------------------------------------------------------
(* Values.                                                                 *)

\* null / undefined object reference.
Null == 0

\* An absent material slot (userData.originalMaterial not set; no material).
NoMaterial == [ref |-> 0, highlight |-> FALSE]

\* An absent userData.propertyValue: both fields falsy.
NoPropertyValue == [statusCode |-> 0, statusText |-> ""]

RECURSIVE Gcd(_, _)
Gcd(a, b) == IF b = 0 THEN a ELSE Gcd(b, a % b)

\* window.innerWidth / window.innerHeight: the quotient, as the fraction in
\* lowest terms (two sizes give the same number iff the fractions agree).
Aspect(size) ==
    LET g == Gcd(size[1], size[2])
    IN  << size[1] \div g, size[2] \div g >>

\* A new Object3D of the given type.
NewObject(type, id, material) ==
    [ type             |-> type,
      id               |-> id,
      children         |-> << >>,
      material         |-> material,
      propertyValue    |-> NoPropertyValue,
      originalMaterial |-> NoMaterial ]

IsMesh(objs, o) == objs[o].type = "Mesh"

-----------------------------------------------------------------------------
(* The scene graph parseJSON returns.                                      *)

\* parent[i] < i: a tree on 1..n rooted at 1.
ParentMaps(n) ==
    { p \in [1..n -> 0..(n - 1)] :
        /\ p[1] = 0
        /\ \A i \in 2..n : p[i] >= 1 /\ p[i] < i }

\* The payloads parseJSON can deserialize: a tree of groups and meshes.
ParsedTrees ==
    UNION { [ n      : {n},
              parent : ParentMaps(n),
              type   : [1..n -> {"Group", "Mesh"}] ] : n \in 1..MaxNodes }

\* The payload's material table has two entries, which its meshes use in
\* turn: meshes two nodes apart share one material object.
MaterialOf(i) == [ref |-> ((i - 1) % 2) + 1, highlight |-> FALSE]

RECURSIVE SeqOfSet(_)
\* The elements of a finite set of integers, in increasing order.
SeqOfSet(S) ==
    IF S = {} THEN << >>
    ELSE LET m == CHOOSE x \in S : \A y \in S : x <= y
         IN  << m >> \o SeqOfSet(S \ {m})

\* The objects parseJSON creates for tree t, appended to objs: node i of the
\* payload becomes object Len(objs) + i, with THREE id firstId + i - 1.
ParseJSON(objs, t, firstId) ==
    LET base == Len(objs)
        node(i) ==
            [ type             |-> t.type[i],
              id               |-> firstId + i - 1,
              children         |-> SeqOfSet({ base + j : j \in { k \in 1..t.n : t.parent[k] = i } }),
              material         |-> IF t.type[i] = "Mesh" THEN MaterialOf(i) ELSE NoMaterial,
              propertyValue    |-> NoPropertyValue,
              originalMaterial |-> NoMaterial ]
    IN  objs \o [i \in 1..t.n |-> node(i)]

-----------------------------------------------------------------------------
(* assignPropertyValues, addTextLabel, addLabelsToModel.                   *)

progressStatuses ==
    [ i \in 1..4 |-> CASE i = 1 -> "Not Started"
                       [] i = 2 -> "In Progress"
                       [] i = 3 -> "Partially Installed"
                       [] i = 4 -> "Installed" ]

\* Mutant of statusIndex: the offset is added before the modulus is taken.
statusIndexOffsetFirst(id) == ((id + 1) % 4) + 1

\* const statusIndex = (child.id % 4) + 1
statusIndex(id) == (id % 4) + 1

\* The callback of assignPropertyValues, applied to object o.
AssignCallback(objs, o) ==
    IF IsMesh(objs, o)
    THEN [objs EXCEPT ![o].propertyValue =
             [ statusCode |-> statusIndex(objs[o].id),
               statusText |-> progressStatuses[statusIndex(objs[o].id)] ]]
    ELSE objs

RECURSIVE TraverseAssign(_, _)
RECURSIVE TraverseAssignChildren(_, _, _, _)
\* Object3D.traverse: the callback on the node, then on each child in order.
TraverseAssign(objs, o) ==
    LET g == AssignCallback(objs, o)
    IN  TraverseAssignChildren(g, o, 1, Len(g[o].children))

TraverseAssignChildren(objs, o, i, l) ==
    IF i > l THEN objs
    ELSE TraverseAssignChildren(TraverseAssign(objs, objs[o].children[i]), o, i + 1, l)

\* Mutant of assignPropertyValues: the callback is applied to the root alone.
assignPropertyValuesRootOnly(objs, root) == AssignCallback(objs, root)

assignPropertyValues(objs, root) == TraverseAssign(objs, root)

\* canvas.getContext("2d") on a canvas element created one line before: the
\* browser returns its 2d context.
HasContext2d == TRUE

\* The id THREE's counter gives the next object.
NextId(objs) ==
    1 + (CHOOSE m \in { objs[k].id : k \in 1..Len(objs) } :
            \A k \in 1..Len(objs) : objs[k].id <= m)

addTextLabel(objs, o) ==
    LET pv == objs[o].propertyValue
    IN  IF pv.statusCode # 0 /\ pv.statusText # ""
        THEN IF ~HasContext2d THEN objs
             ELSE LET sprite == Len(objs) + 1
                  IN  [ Append(objs, NewObject("Sprite", NextId(objs), NoMaterial))
                          EXCEPT ![o].children = Append(@, sprite) ]
        ELSE objs

\* The callback of addLabelsToModel, applied to object o.
LabelCallback(objs, o) ==
    IF IsMesh(objs, o) THEN addTextLabel(objs, o) ELSE objs

RECURSIVE TraverseLabel(_, _)
RECURSIVE TraverseLabelChildren(_, _, _, _)
\* Object3D.traverse: the callback runs first, so the child list it walks
\* (and its length) already holds a sprite the callback added to this node.
TraverseLabel(objs, o) ==
    LET g == LabelCallback(objs, o)
    IN  TraverseLabelChildren(g, o, 1, Len(g[o].children))

TraverseLabelChildren(objs, o, i, l) ==
    IF i > l THEN objs
    ELSE TraverseLabelChildren(TraverseLabel(objs, objs[o].children[i]), o, i + 1, l)

\* Mutant of addLabelsToModel: the callback is applied to the root alone.
addLabelsToModelRootOnly(objs, root) == LabelCallback(objs, root)

addLabelsToModel(objs, root) == TraverseLabel(objs, root)

-----------------------------------------------------------------------------
(* Selection and highlight.                                                *)

\* new THREE.MeshBasicMaterial({color: 0xff0000, wireframe: true}): an object
\* distinct from every material some object still refers to.
NewHighlightMaterial(objs) ==
    LET used == { objs[k].material.ref : k \in { j \in 1..Len(objs) : objs[j].material.highlight } }
                \cup { objs[k].originalMaterial.ref :
                         k \in { j \in 1..Len(objs) : objs[j].originalMaterial.highlight } }
    IN  [ ref       |-> CHOOSE r \in 1..(Len(objs) * 2 + 1) :
                            r \notin used /\ \A q \in 1..(r - 1) : q \in used,
          highlight |-> TRUE ]

\* Mutant of resetObjectMaterial: the material is put back and the cache
\* slot is kept.
resetObjectMaterialKeepsCache(objs, o) ==
    IF IsMesh(objs, o) /\ objs[o].originalMaterial # NoMaterial
    THEN [objs EXCEPT ![o].material = objs[o].originalMaterial]
    ELSE objs

\* Mutant of resetObjectMaterial: the cache slot is deleted and the material
\* is not put back.
resetObjectMaterialNoRestore(objs, o) ==
    IF IsMesh(objs, o) /\ objs[o].originalMaterial # NoMaterial
    THEN [objs EXCEPT ![o].originalMaterial = NoMaterial]
    ELSE objs

resetObjectMaterial(objs, o) ==
    IF IsMesh(objs, o) /\ objs[o].originalMaterial # NoMaterial
    THEN [objs EXCEPT ![o] = [@ EXCEPT !.material = objs[o].originalMaterial,
                                       !.originalMaterial = NoMaterial]]
    ELSE objs

\* Mutant of highlightObject: the previous selection is not reset.
highlightObjectNoReset(sel, objs, o) ==
    [ selectedObject |-> o,
      objects |-> IF IsMesh(objs, o)
                  THEN [objs EXCEPT ![o] = [@ EXCEPT !.originalMaterial = objs[o].material,
                                                     !.material = NewHighlightMaterial(objs)]]
                  ELSE objs ]

\* The result of highlightObject(o): the new selection slot and the objects.
highlightObject(sel, objs, o) ==
    LET g == IF sel # Null THEN resetObjectMaterial(objs, sel) ELSE objs
    IN  [ selectedObject |-> o,
          objects |-> IF IsMesh(g, o)
                      THEN [g EXCEPT ![o] = [@ EXCEPT !.originalMaterial = g[o].material,
                                                      !.material = NewHighlightMaterial(g)]]
                      ELSE g ]

\* Mutant of onMouseClick: a click on empty space restores the material and
\* leaves the selection slot as it was.
onMouseClickKeepsSelection(sel, objs, hit) ==
    IF hit # Null
    THEN LET g == IF sel # Null THEN resetObjectMaterial(objs, sel) ELSE objs
         IN  highlightObject(hit, g, hit)
    ELSE IF sel # Null
         THEN [ selectedObject |-> sel, objects |-> resetObjectMaterial(objs, sel) ]
         ELSE [ selectedObject |-> sel, objects |-> objs ]

\* The result of onMouseClick when the nearest intersection is object hit
\* (Null: the ray intersects nothing).
onMouseClick(sel, objs, hit) ==
    IF hit # Null
    THEN LET g == IF sel # Null THEN resetObjectMaterial(objs, sel) ELSE objs
         IN  highlightObject(hit, g, hit)
    ELSE IF sel # Null
         THEN [ selectedObject |-> Null, objects |-> resetObjectMaterial(objs, sel) ]
         ELSE [ selectedObject |-> sel, objects |-> objs ]

RECURSIVE Subtree(_, _)
\* o and all its descendants.
Subtree(objs, o) ==
    {o} \cup UNION { Subtree(objs, objs[o].children[i]) : i \in 1..Len(objs[o].children) }

\* What Raycaster.intersectObjects(scene.children, true) can return first:
\* an object under the scene whose type implements raycast.
Hittable ==
    { o \in UNION { Subtree(objects, sceneChildren[i]) : i \in 1..Len(sceneChildren) } :
        objects[o].type \in {"Mesh", "Sprite"} }

-----------------------------------------------------------------------------
(* The render loop.                                                        *)

\* Mutant of Render: the draw leaves the dirty flag as it was.
RenderKeepsFlag(needed, hasControlsUpdated) ==
    [ drew |-> hasControlsUpdated \/ needed, renderNeeded |-> needed ]

\* One call of _render with the dirty flag at needed and the camera
\* controller's update() returning hasControlsUpdated: whether it draws, and
\* the dirty flag it leaves. It always requests one more animation frame.
Render(needed, hasControlsUpdated) ==
    IF hasControlsUpdated \/ needed
    THEN [ drew |-> TRUE,  renderNeeded |-> FALSE ]
    ELSE [ drew |-> FALSE, renderNeeded |-> needed ]

\* updateViewer(): sets the dirty flag and calls _render.
updateViewer(hasControlsUpdated) == Render(TRUE, hasControlsUpdated)

-----------------------------------------------------------------------------
(* The state the constructor leaves: two lights in the scene, both         *)
(* listeners registered, loadModel() suspended at its fetch with status    *)
(* "loading", and updateViewer() has drawn once and requested a frame.     *)

Init ==
    /\ innerSize \in WindowSizes
    /\ cameraAspect = Aspect(innerSize)
    /\ rendererSize = innerSize
    /\ objects = << NewObject("DirectionalLight", 1, NoMaterial),
                    NewObject("AmbientLight", 2, NoMaterial) >>
    /\ sceneChildren = << 1, 2 >>
    /\ selectedObject = Null
    /\ model = Null
    /\ status = "loading"
    /\ loadPc = "fetching"
    /\ resizeListener = TRUE
    /\ clickListener = TRUE
    /\ \E u \in BOOLEAN : /\ renderNeeded = updateViewer(u).renderNeeded
                          /\ drew = updateViewer(u).drew
    /\ pendingFrames = 1
    /\ disposed = FALSE
    /\ materialAtLoad = << NoMaterial, NoMaterial >>

-----------------------------------------------------------------------------
(* loadModel() and the constructor's then-handler.                         *)

\* Mutant of FetchReject: the catch block rethrows and sets no status.
FetchRejectNoStatus ==
    /\ loadPc = "fetching"
    /\ loadPc' = "fetchRejected"
    /\ UNCHANGED << status, model, objects, sceneChildren, selectedObject,
                    renderNeeded, pendingFrames, cameraAspect, rendererSize,
                    innerSize, resizeListener, clickListener, disposed, drew,
                    materialAtLoad >>

\* axios.get rejects: the catch block sets "error" and rethrows; the
\* then-handler never runs.
FetchReject ==
    /\ loadPc = "fetching"
    /\ loadPc' = "fetchRejected"
    /\ status' = "error"
    /\ UNCHANGED << model, objects, sceneChildren, selectedObject, renderNeeded,
                    pendingFrames, cameraAspect, rendererSize, innerSize,
                    resizeListener, clickListener, disposed, drew, materialAtLoad >>

\* axios.get resolves. If findThreeJSJSON(data) finds a payload, loadModel
\* suspends at parseJSON; if not, it falls out of the if and returns
\* undefined, and the then-handler does nothing.
FetchResolve(found) ==
    /\ loadPc = "fetching"
    /\ loadPc' = IF found THEN "parsing" ELSE "noPayload"
    /\ UNCHANGED << status, model, objects, sceneChildren, selectedObject,
                    renderNeeded, pendingFrames, cameraAspect, rendererSize,
                    innerSize, resizeListener, clickListener, disposed, drew,
                    materialAtLoad >>

\* Mutant of ParseReject: the catch block sets "error" and fetches again.
ParseRejectRetries ==
    /\ loadPc = "parsing"
    /\ loadPc' = "fetching"
    /\ status' = "error"
    /\ UNCHANGED << model, objects, sceneChildren, selectedObject, renderNeeded,
                    pendingFrames, cameraAspect, rendererSize, innerSize,
                    resizeListener, clickListener, disposed, drew, materialAtLoad >>

\* parseJSON rejects: as for a rejected fetch.
ParseReject ==
    /\ loadPc = "parsing"
    /\ loadPc' = "parseRejected"
    /\ status' = "error"
    /\ UNCHANGED << model, objects, sceneChildren, selectedObject, renderNeeded,
                    pendingFrames, cameraAspect, rendererSize, innerSize,
                    resizeListener, clickListener, disposed, drew, materialAtLoad >>

\* Mutant of thenHandler: a disposed viewer ignores the loaded root.
thenHandlerUnlessDisposed(object3d) ==
    IF object3d # Null /\ ~disposed
    THEN [ sceneChildren |-> Append(sceneChildren, object3d),
           model         |-> object3d,
           status        |-> "idle" ]
    ELSE [ sceneChildren |-> sceneChildren, model |-> model, status |-> status ]

\* The constructor's then-handler, given what loadModel() resolved to: the
\* scene's children, model and status it leaves.
thenHandler(object3d) ==
    IF object3d # Null
    THEN [ sceneChildren |-> Append(sceneChildren, object3d),
           model         |-> object3d,
           status        |-> "idle" ]
    ELSE [ sceneChildren |-> sceneChildren, model |-> model, status |-> status ]

\* parseJSON resolves to tree t: loadModel assigns the status metadata, adds
\* the labels and returns the root; the then-handler (the next microtask)
\* adds the root to the scene, records it as model and emits "idle".
ParseResolve(t, firstId) ==
    /\ loadPc = "parsing"
    /\ LET parsed   == ParseJSON(objects, t, firstId)
           root     == Len(objects) + 1
           assigned == assignPropertyValues(parsed, root)
           labelled == addLabelsToModel(assigned, root)
           h        == thenHandler(root)
       IN  /\ objects' = labelled
           /\ sceneChildren' = h.sceneChildren
           /\ model' = h.model
           /\ status' = h.status
           /\ materialAtLoad' =
                [ i \in 1..Len(labelled) |->
                    IF i <= Len(parsed) THEN parsed[i].material ELSE NoMaterial ]
    /\ loadPc' = "loaded"
    /\ UNCHANGED << selectedObject, renderNeeded, pendingFrames, cameraAspect,
                    rendererSize, innerSize, resizeListener, clickListener,
                    disposed, drew >>

-----------------------------------------------------------------------------
(* Events.                                                                 *)

\* The window takes a new size and the browser dispatches "resize": the
\* handler runs if it is still registered.
WindowResize(size, hasControlsUpdated) ==
    /\ resizeListener => pendingFrames < MaxPending
    /\ innerSize' = size
    /\ IF resizeListener
       THEN LET r == updateViewer(hasControlsUpdated)
            IN  /\ cameraAspect' = Aspect(size)
                /\ rendererSize' = size
                /\ renderNeeded' = r.renderNeeded
                /\ drew' = r.drew
                /\ pendingFrames' = pendingFrames + 1
       ELSE UNCHANGED << cameraAspect, rendererSize, renderNeeded, drew, pendingFrames >>
    /\ UNCHANGED << status, model, loadPc, objects, sceneChildren, selectedObject,
                    resizeListener, clickListener, disposed, materialAtLoad >>

\* A click on the canvas whose ray first intersects object hit (Null: it
\* intersects nothing): the handler runs if it is still registered.
CanvasClick(hit) ==
    /\ hit \in Hittable \cup {Null}
    /\ IF clickListener
       THEN LET r == onMouseClick(selectedObject, objects, hit)
            IN  /\ selectedObject' = r.selectedObject
                /\ objects' = r.objects
       ELSE UNCHANGED << selectedObject, objects >>
    /\ UNCHANGED << status, model, loadPc, sceneChildren, renderNeeded,
                    pendingFrames, cameraAspect, rendererSize, innerSize,
                    resizeListener, clickListener, disposed, drew, materialAtLoad >>

\* Mutant of HierarchyClick: highlightObject also requests a re-render.
HierarchyClickMarksDirty(o) ==
    /\ model # Null
    /\ o \in Subtree(objects, model)
    /\ LET r == highlightObject(selectedObject, objects, o)
       IN  /\ selectedObject' = r.selectedObject
           /\ objects' = r.objects
    /\ renderNeeded' = TRUE
    /\ UNCHANGED << status, model, loadPc, sceneChildren,
                    pendingFrames, cameraAspect, rendererSize, innerSize,
                    resizeListener, clickListener, disposed, drew, materialAtLoad >>

\* A click on an entry of the hierarchy widget, which lists viewer.model and
\* its descendants once model is defined: viewer.highlightObject(o).
HierarchyClick(o) ==
    /\ model # Null
    /\ o \in Subtree(objects, model)
    /\ LET r == highlightObject(selectedObject, objects, o)
       IN  /\ selectedObject' = r.selectedObject
           /\ objects' = r.objects
    /\ UNCHANGED << status, model, loadPc, sceneChildren, renderNeeded,
                    pendingFrames, cameraAspect, rendererSize, innerSize,
                    resizeListener, clickListener, disposed, drew, materialAtLoad >>

\* The browser runs one pending animation-frame callback: _render.
Frame(hasControlsUpdated) ==
    /\ pendingFrames >= 1
    /\ LET r == Render(renderNeeded, hasControlsUpdated)
       IN  /\ renderNeeded' = r.renderNeeded
           /\ drew' = r.drew
    /\ pendingFrames' = (pendingFrames - 1) + 1
    /\ UNCHANGED << status, model, loadPc, objects, sceneChildren, selectedObject,
                    cameraAspect, rendererSize, innerSize, resizeListener,
                    clickListener, disposed, materialAtLoad >>

\* Mutant of Dispose: the pending animation frame is cancelled.
DisposeCancelsFrames ==
    /\ ~disposed
    /\ disposed' = TRUE
    /\ resizeListener' = FALSE
    /\ clickListener' = FALSE
    /\ sceneChildren' = << >>
    /\ renderNeeded' = FALSE
    /\ pendingFrames' = 0
    /\ UNCHANGED << status, model, loadPc, objects, selectedObject,
                    cameraAspect, rendererSize, innerSize, drew, materialAtLoad >>

\* Mutant of Dispose: the click listener is left registered.
DisposeKeepsClickListener ==
    /\ ~disposed
    /\ disposed' = TRUE
    /\ resizeListener' = FALSE
    /\ sceneChildren' = << >>
    /\ renderNeeded' = FALSE
    /\ UNCHANGED << status, model, loadPc, objects, selectedObject, pendingFrames,
                    cameraAspect, rendererSize, innerSize, clickListener, drew,
                    materialAtLoad >>

\* dispose(), called once when the viewer is unmounted.
Dispose ==
    /\ ~disposed
    /\ disposed' = TRUE
    /\ resizeListener' = FALSE
    /\ clickListener' = FALSE
    /\ sceneChildren' = << >>
    /\ renderNeeded' = FALSE
    /\ UNCHANGED << status, model, loadPc, objects, selectedObject, pendingFrames,
                    cameraAspect, rendererSize, innerSize, drew, materialAtLoad >>

Next ==
    \/ FetchReject
    \/ \E found \in BOOLEAN : FetchResolve(found)
    \/ ParseReject
    \/ \E t \in ParsedTrees, firstId \in FirstIds : ParseResolve(t, firstId)
    \/ \E size \in WindowSizes, u \in BOOLEAN : WindowResize(size, u)
    \/ \E hit \in 0..Len(objects) : CanvasClick(hit)
    \/ \E o \in 1..Len(objects) : HierarchyClick(o)
    \/ \E u \in BOOLEAN : Frame(u)
    \/ Dispose

Spec == Init /\ [][Next]_vars

-----------------------------------------------------------------------------
(* Vocabulary of the properties.                                           *)

Objects == 1..Len(objects)

Meshes == { o \in Objects : objects[o].type = "Mesh" }

\* The meshes that carry a highlight material.
Highlighted == { o \in Meshes : objects[o].material.highlight }

\* The label sprites that are direct children of o.
SpriteChildren(o) ==
    { i \in 1..Len(objects[o].children) : objects[objects[o].children[i]].type = "Sprite" }

\* The model root is a direct child of the scene.
ModelInScene == \E i \in 1..Len(sceneChildren) : sceneChildren[i] = model

\* What a resize or click handler of the viewer could change.
viewerState == << status, model, objects, sceneChildren, selectedObject,
                  renderNeeded, pendingFrames, cameraAspect, rendererSize, drew >>

-----------------------------------------------------------------------------
(* C1: at most one mesh carries the highlight material, and a mesh that    *)
(* carries it is the selected object.                                      *)
C1_SingleHighlight ==
    /\ Cardinality(Highlighted) <= 1
    /\ \A o \in Highlighted : selectedObject = o

\* A mesh is highlighted while the model holds another mesh and a sprite.
C1_Witness ==
    /\ Highlighted = {selectedObject}
    /\ Cardinality(Meshes) >= 2
    /\ \E o \in Meshes : o # selectedObject /\ ~objects[o].material.highlight

(* C2: a step that moves the selection away from a highlighted mesh A      *)
(* leaves A with the very material it was parsed with; a cached original   *)
(* is never a highlight material, also after A was highlighted repeatedly. *)
C2_RestoresOriginal ==
    [][ /\ \A a \in Meshes :
              (objects[a].material.highlight /\ selectedObject' # a)
                  => objects'[a].material = materialAtLoad[a]
        /\ \A a \in 1..Len(objects') :
              /\ ~objects'[a].originalMaterial.highlight
              /\ objects'[a].originalMaterial # NoMaterial
                    => objects'[a].originalMaterial = materialAtLoad'[a]
      ]_vars

\* Mesh A is highlighted, its parsed material cached, and another mesh that
\* shares A's parsed material is there to be selected next.
C2_Witness ==
    \E a \in Highlighted :
        /\ objects[a].originalMaterial = materialAtLoad[a]
        /\ \E b \in Meshes : b # a /\ objects[b].material = materialAtLoad[a]

(* C3: when the parse of a fetched payload resolves, status goes from      *)
(* loading to idle and model becomes defined; when the fetch rejects,      *)
(* status goes from loading to error, and model is undefined then and      *)
(* ever after.                                                             *)
C3_LoadOutcome ==
    [][ /\ (loadPc = "parsing" /\ loadPc' = "loaded")
              => (status = "loading" /\ status' = "idle" /\ model = Null /\ model' # Null)
        /\ (loadPc = "fetching" /\ loadPc' = "fetchRejected")
              => (status = "loading" /\ status' = "error")
        /\ loadPc' = "fetchRejected" => (status' = "error" /\ model' = Null)
        /\ loadPc' = "loaded" => (status' = "idle" /\ model' # Null)
      ]_vars

C3_Witness == loadPc = "loaded" /\ status = "idle" /\ model # Null /\ ModelInScene

(* C4: every load failure, the response without a payload included, ends   *)
(* with status error: status is not loading once the load has settled.     *)
C4_FailureIsError ==
    /\ loadPc \in {"fetchRejected", "noPayload", "parseRejected"} => status = "error"
    /\ loadPc \notin {"fetching", "parsing"} => status # "loading"

(* C5: every mesh has status code (id mod 4) + 1, a value of 1..4, and the *)
(* text of that code; an object that is no mesh has no status metadata.    *)
C5_StatusOfMesh ==
    \A o \in Objects :
        LET pv == objects[o].propertyValue
        IN  IF objects[o].type = "Mesh"
            THEN /\ pv.statusCode \in 1..4
                 /\ pv.statusCode - 1 = objects[o].id % 4
                 /\ pv.statusText = CASE pv.statusCode = 1 -> "Not Started"
                                      [] pv.statusCode = 2 -> "In Progress"
                                      [] pv.statusCode = 3 -> "Partially Installed"
                                      [] pv.statusCode = 4 -> "Installed"
            ELSE pv = NoPropertyValue

\* A loaded tree with a group and with meshes of codes 4 and 1.
C5_Witness ==
    /\ loadPc = "loaded"
    /\ \E g \in Subtree(objects, model) : objects[g].type = "Group"
    /\ \E a, b \in Meshes :
          /\ objects[a].propertyValue.statusCode = 4
          /\ objects[b].propertyValue.statusText = "Not Started"

C7_NoHandlerAfterDispose ==
    [][ /\ disposed' => (~resizeListener' /\ ~clickListener')
        /\ disposed =>
              /\ \A hit \in 0..Len(objects) :
                    CanvasClick(hit) => UNCHANGED viewerState
              /\ \A size \in WindowSizes, u \in BOOLEAN :
                    WindowResize(size, u) => UNCHANGED viewerState
      ]_vars

\* The window was resized after dispose, and the render surface was not.
C7_Witness == disposed /\ innerSize # rendererSize /\ cameraAspect # Aspect(innerSize)

(* C8: a resize handled by the viewer sets the aspect to width / height,   *)
(* resizes the surface and leaves the dirty flag set for the next frame,   *)
(* which then draws.                                                       *)
C8_ResizeMarksDirty ==
    [][ \A size \in WindowSizes, u \in BOOLEAN :
          (resizeListener /\ WindowResize(size, u)) =>
              /\ cameraAspect' = Aspect(size)
              /\ rendererSize' = size
              /\ renderNeeded' = TRUE
      ]_vars

\* Every mesh under the model has its status metadata and one label sprite.
ModelComplete ==
    \A o \in Subtree(objects, model) :
        objects[o].type = "Mesh" =>
            /\ objects[o].propertyValue # NoPropertyValue
            /\ Cardinality(SpriteChildren(o)) = 1

C10_SingleLoop == pendingFrames <= 1

(* C11: a frame draws exactly when the camera controller reported a       *)
(* change or the dirty flag is set; a frame that draws leaves the flag     *)
(* false, one that does not leaves it as it was; every frame requests the  *)
(* next one. The one call of _render that finds the flag set is the one    *)
(* updateViewer makes in a handled resize: it draws, clears the flag and   *)
(* requests a frame as well.                                               *)
C11_FrameDrawsIffNeeded ==
    [][ /\ \A u \in BOOLEAN :
              Frame(u) =>
                  /\ drew' <=> (u \/ renderNeeded)
                  /\ drew' => ~renderNeeded'
                  /\ ~drew' => (renderNeeded' = renderNeeded)
                  /\ pendingFrames' = pendingFrames /\ pendingFrames' >= 1
        /\ pendingFrames' = pendingFrames + 1 => (drew' /\ ~renderNeeded')
      ]_vars

\* A frame has run that skipped the draw call, and the next one is pending.
C11_Witness == ~drew /\ ~renderNeeded /\ pendingFrames >= 1

(* C12: dispose leaves the load pending; when the parse resolves on a      *)
(* disposed viewer the loaded root becomes the only child of the cleared   *)
(* scene, model becomes defined and status becomes idle.                   *)
C12_LateLoadMutatesViewer ==
    [][ /\ (~disposed /\ disposed') => loadPc' = loadPc
        /\ (disposed /\ loadPc = "parsing" /\ loadPc' = "loaded") =>
              /\ sceneChildren = << >>
              /\ model = Null /\ model' # Null
              /\ sceneChildren' = << model' >>
              /\ status = "loading" /\ status' = "idle"
              /\ Len(objects') > Len(objects)
      ]_vars

\* Disposed, and the root that was loaded afterwards sits in the scene.
C12_Witness ==
    disposed /\ loadPc = "loaded" /\ status = "idle" /\ sceneChildren = << model >>

(* C13: dispose leaves the animation loop running: it changes the dirty   *)
(* flag and not the pending callback, and on a disposed viewer a callback  *)
(* is pending after every step.                                            *)
C13_LoopSurvivesDispose ==
    [][ /\ (~disposed /\ disposed') => (pendingFrames' = pendingFrames /\ ~renderNeeded')
        /\ disposed' => pendingFrames' >= 1
        /\ disposed => pendingFrames' = pendingFrames
      ]_vars

\* Disposed, a frame has skipped its draw, and callbacks are still pending.
C13_Witness == disposed /\ ~drew /\ pendingFrames >= 1 /\ innerSize # rendererSize

(* C14: a handled click whose ray hits an object makes that object the     *)
(* selection, highlighted if it is a mesh, with the previous selection's   *)
(* material restored; a handled click that hits nothing restores the       *)
(* previous selection's material and makes the selection null.             *)
C14_ClickSelectsNearest ==
    [][ \A hit \in 0..Len(objects) :
          (clickListener /\ CanvasClick(hit)) =>
              /\ selectedObject' = hit
              /\ (hit # Null /\ IsMesh(objects, hit)) =>
                    /\ objects'[hit].material.highlight
                    /\ objects'[hit].originalMaterial = materialAtLoad[hit]
              /\ \A p \in Meshes \ {hit} :
                    /\ objects'[p].material = materialAtLoad[p]
                    /\ objects'[p].originalMaterial = NoMaterial
      ]_vars

\* Nothing is selected, every mesh has its parsed material, and a sprite and
\* two meshes are there to be hit.
C14_Witness ==
    /\ clickListener /\ selectedObject = Null /\ model # Null
    /\ Cardinality(Meshes \cap Hittable) >= 2
    /\ \A p \in Meshes : objects[p].material = materialAtLoad[p]

(* C15: the load is never started again: a fetch or parse that has       *)
(* settled stays settled, and once status is error it stays error and      *)
(* model stays undefined, whatever step follows.                           *)
C15_ErrorIsTerminal ==
    [][ /\ status = "error" => (status' = "error" /\ model' = Null /\ loadPc' = loadPc)
        /\ loadPc # "fetching" => loadPc' # "fetching"
        /\ loadPc \notin {"fetching", "parsing"} => loadPc' = loadPc
      ]_vars

\* In error after a rejected parse, with a resize handled and dispose called
\* since the viewer was built.
C15_Witness ==
    /\ status = "error" /\ loadPc = "parseRejected" /\ model = Null
    /\ disposed /\ pendingFrames >= 2

(* C16: resetObjectMaterial on a mesh with a cached original puts that     *)
(* material back and removes the slot, touching no other object; on any    *)
(* other object it changes nothing; a second call changes nothing more.    *)
C16_ResetObjectMaterial ==
    \A o \in Objects :
        LET r == resetObjectMaterial(objects, o)
        IN  /\ IF objects[o].type = "Mesh" /\ objects[o].originalMaterial # NoMaterial
               THEN /\ r[o].material = objects[o].originalMaterial
                    /\ r[o].originalMaterial = NoMaterial
                    /\ r[o].children = objects[o].children
                    /\ r[o].propertyValue = objects[o].propertyValue
                    /\ Len(r) = Len(objects)
                    /\ \A k \in Objects \ {o} : r[k] = objects[k]
               ELSE r = objects
            /\ resetObjectMaterial(r, o) = r

\* A highlighted mesh with its original cached, beside a mesh without a
\* cache and objects that are no mesh.
C16_Witness ==
    /\ \E a \in Meshes : objects[a].originalMaterial # NoMaterial
    /\ \E b \in Meshes : objects[b].originalMaterial = NoMaterial
    /\ \E s \in Objects : objects[s].type = "Sprite"

(* C17: a mesh has a cached original exactly when it is the selected       *)
(* object, and a cached original is the mesh's parsed material, never a    *)
(* highlight material; with the selection null or no mesh, no mesh has a   *)
(* cached original.                                                        *)
C17_CacheIffSelected ==
    /\ \A m \in Meshes :
          /\ (objects[m].originalMaterial # NoMaterial) <=> (selectedObject = m)
          /\ ~objects[m].originalMaterial.highlight
    /\ (selectedObject = Null \/ selectedObject \notin Meshes) =>
          \A m \in Meshes : objects[m].originalMaterial = NoMaterial

\* A sprite is selected after meshes were there to select, none holds a cache.
C17_Witness ==
    /\ selectedObject # Null /\ objects[selectedObject].type = "Sprite"
    /\ Cardinality(Meshes) >= 2
    /\ \A m \in Meshes : objects[m].originalMaterial = NoMaterial

(* C18: a step that changes the selection or a material leaves the dirty   *)
(* flag, the last draw and the pending callbacks as they were; with the    *)
(* flag clear, a frame on which the camera controller reports no change    *)
(* skips the draw call.                                                    *)
C18_SelectionNeverMarksDirty ==
    [][ /\ (selectedObject' # selectedObject
              \/ \E m \in Meshes : objects'[m].material # objects[m].material)
              => (renderNeeded' = renderNeeded /\ drew' = drew
                    /\ pendingFrames' = pendingFrames)
        /\ (Highlighted # {} /\ ~renderNeeded /\ Frame(FALSE)) => ~drew'
        /\ Highlighted' # {} => ~renderNeeded'
      ]_vars

\* A mesh is highlighted and the last frame skipped its draw.
C18_Witness == Highlighted # {} /\ ~renderNeeded /\ ~drew

=============================================================================
